---- MODULE Spec2Model ----
(***************************************************************************)
(* Turn-resolution core of the turn-based combat simulator: the ATB        *)
(* scheduler and turn state machine of battle.py, the action and status    *)
(* engine of action_core.py, the stat baseline of character.py and the     *)
(* default AI policy of behaviour.py.                                       *)
(*                                                                         *)
(* The definition files (definitions/battlers.csv, actions.csv,            *)
(* statuses.csv) are inputs of the program; the records BattlerDef,        *)
(* ActionDef and StatusDef below are one small catalog of such inputs.     *)
(* Floating-point products of the source are modelled by exact rational    *)
(* arithmetic followed by the int() truncation toward zero; where a double *)
(* of the source falls short of the exact value on the inputs followed     *)
(* here (PotencyBelow), the model follows the double.                      *)
(***************************************************************************)
EXTENDS Integers, Sequences, FiniteSets, TLC

VARIABLES
    state,          \* battle.state: the class name of the current BattleState
    actor,          \* the .actor field of the current state ("none" if it has none)
    tie_winner,     \* WaitingForTie.tie_winner ("none" = None)
    action,         \* ControlledTurn.action ("none" = None)
    targets,        \* ControlledTurn.targets
    battlers,       \* battle.battlers: the active roster, a list
    graveyard,      \* battle.graveyard, a list
    ready_actors,   \* battle.ready_actors, a list
    outcome,        \* battle.outcome ("none" = None)
    hp, mp, limit, atb,   \* per Character
    stats,          \* per Character: strength, magic, defense, mdefense, speed
    statuses,       \* per Character: list of Status objects (name, stack, duration)
    affinities,     \* per Character: element -> multiplier
    commands,       \* per Character: the actions its commands offer
    inventory,      \* Battle.inventory: list of Item (name, quantity)
    error,          \* the exception that ended the program ("none" while it runs)
    log_messages,   \* battle.log_messages: the lines the latest advance appended
                    \* (the host takes them out after every advance, game.py 47-48)
    behaviour_log,  \* per Character: Behaviour.log_messages
    turns           \* the number of turns ended so far (bounds the exploration)

vars == <<state, actor, tie_winner, action, targets, battlers, graveyard,
          ready_actors, outcome, hp, mp, limit, atb, stats, statuses,
          affinities, commands, inventory, error, log_messages,
          behaviour_log, turns>>

----------------------------------------------------------------------------
(* Bounds of the model *)

\* the gauges fill only while fewer than MaxTurns turns have ended
MaxTurns == 3

\* the dt values of Battle.loop(dt) the model follows
DtValues == {0, 1, 2}

(* Program constants *)
READY_THRESHOLD == 296
AtbRate == 5
LimitMax == 100
CritMultiplier == 2

----------------------------------------------------------------------------
(* The encounter: Battle(party, enemies) *)

party == <<"Hero", "Mage">>
enemies == <<"Slime">>

Range(s) == {s[i] : i \in 1..Len(s)}
Battlers == Range(party) \cup Range(enemies)

\* Mutant: Enemy.__init__ forgets to clear the flag
EveryoneControllable(b) == TRUE

\* Character.is_controllable is True, Enemy.is_controllable is False
is_controllable(b) == b \in Range(party)

StatNames == {"strength", "magic", "defense", "mdefense", "speed"}
Elements == {"Fire", "Ice", "Lightning", "Water", "Wind", "Earth", "Neutral"}

\* A row of battlers.csv after level_up
BattlerDef(b) ==
    CASE b = "Hero"  -> [hp_max |-> 4, mp_max |-> 1, strength |-> 4, magic |-> 2,
                         defense |-> 4, mdefense |-> 4, speed |-> 120]
      [] b = "Mage"  -> [hp_max |-> 3, mp_max |-> 2, strength |-> 2, magic |-> 4,
                         defense |-> 2, mdefense |-> 4, speed |-> 30]
      [] OTHER       -> [hp_max |-> 4, mp_max |-> 0, strength |-> 4, magic |-> 2,
                         defense |-> 5, mdefense |-> 2, speed |-> 20]

hp_max(b) == BattlerDef(b).hp_max
mp_max(b) == BattlerDef(b).mp_max

\* Character.prepare_for_battle: the snapshot of the five stats
pre_battle_stats(b) ==
    [strength |-> BattlerDef(b).strength, magic |-> BattlerDef(b).magic,
     defense |-> BattlerDef(b).defense, mdefense |-> BattlerDef(b).mdefense,
     speed |-> BattlerDef(b).speed]

\* A row of statuses.csv; a name that is not found keeps Status.__init__'s defaults
StatusDef(name) ==
    CASE name = "Brave" -> [starting_stacks |-> 1, max_stacks |-> 2,
                            applied_duration |-> 2, max_duration |-> 3,
                            stat_modifiers |-> <<[stat |-> "strength", num |-> 2, den |-> 1]>>]
      [] name = "Break" -> [starting_stacks |-> 1, max_stacks |-> 1,
                            applied_duration |-> 1, max_duration |-> 2,
                            stat_modifiers |-> <<[stat |-> "defense", num |-> 1, den |-> 2]>>]
      [] name = "Regen" -> [starting_stacks |-> 1, max_stacks |-> 3,
                            applied_duration |-> 3, max_duration |-> 7,
                            stat_modifiers |-> <<>>]
      [] name = "Haste" -> [starting_stacks |-> 2, max_stacks |-> 2,
                            applied_duration |-> 1, max_duration |-> 1,
                            stat_modifiers |-> <<[stat |-> "speed", num |-> 2, den |-> 1]>>]
      [] OTHER          -> [starting_stacks |-> 1, max_stacks |-> 1,
                            applied_duration |-> 3, max_duration |-> 3,
                            stat_modifiers |-> <<>>]

StatusNames == {"Brave", "Break", "Regen"}

\* A row of actions.csv; a name that is not found keeps Action.__init__'s defaults
DefaultAction ==
    [type |-> "Damage Single", potency |-> 100, is_physical |-> TRUE,
     element |-> "None", targetting |-> "Single", mp_cost |-> 0,
     status_for_actor |-> <<>>, status_for_target |-> <<>>,
     status_costs |-> <<>>, class |-> "Action"]

ActionDef(name) ==
    CASE name = "Fire"   -> [DefaultAction EXCEPT !.type = "Damage All", !.is_physical = FALSE,
                                !.element = "Fire", !.targetting = "All",
                                !.mp_cost = 1]
      [] name = "Cure"   -> [DefaultAction EXCEPT !.type = "Heal Single",
                                !.targetting = "Single Ally", !.mp_cost = 1]
      [] name = "Focus"  -> [DefaultAction EXCEPT !.type = "Buff Only", !.targetting = "Self",
                                !.status_for_actor = <<"Brave">>]
      [] name = "Smash"  -> [DefaultAction EXCEPT !.potency = 150,
                                !.targetting = "Single Enemy",
                                !.status_for_target = <<"Break">>,
                                !.status_costs = <<[name |-> "Brave", stack |-> 1]>>]
      [] name = "Jab"    -> [DefaultAction EXCEPT !.potency = 58,
                                !.targetting = "Single Enemy"]
      [] name = "Potion" -> [DefaultAction EXCEPT !.type = "Item Heal", !.potency = 2,
                                !.targetting = "Single Ally", !.class = "Item_Action"]
      [] name = "Rally"  -> [DefaultAction EXCEPT !.type = "Buff Only",
                                !.targetting = "All Allies",
                                !.status_for_actor = <<"Brave">>,
                                !.status_for_target = <<"Brave">>]
      [] name = "Hurry"  -> [DefaultAction EXCEPT !.type = "Buff Only", !.targetting = "Self",
                                !.status_for_actor = <<"Haste">>]
      [] name = "Vent"   -> [DefaultAction EXCEPT !.type = "Buff Only", !.targetting = "Self",
                                !.status_costs = <<[name |-> "Brave", stack |-> 2]>>]
      [] name = "Elixir" -> [DefaultAction EXCEPT !.type = "Item Heal", !.potency = 4,
                                !.targetting = "Single Ally", !.mp_cost = 1,
                                !.class = "Item_Action"]
      [] OTHER           -> DefaultAction

basic_attack == "Attack"

----------------------------------------------------------------------------
(* Arithmetic *)

\* int(x) of a rational n/d, d > 0: truncation toward zero
Trunc(n, d) == IF n >= 0 THEN n \div d ELSE -((-n) \div d)

RECURSIVE Pow(_, _)
Pow(b, e) == IF e = 0 THEN 1 ELSE b * Pow(b, e - 1)

RECURSIVE GCD(_, _)
GCD(a, b) == IF b = 0 THEN a ELSE GCD(b, a % b)

Min(a, b) == IF a <= b THEN a ELSE b

SetMax(S) == CHOOSE x \in S : \A y \in S : y <= x

----------------------------------------------------------------------------
(* Combat formulas (action_core.py) *)

\* The potencies of the catalog whose hundredth, as a double, lies below potency/100
PotencyBelow == {58}

\* Action.damageFormula: int(attack / 2**(defense/attack) * (potency/100)), attack > 0.
\* The result is the largest n with n * 2^(defense/attack) <= attack*potency/100,
\* that is, with defense/attack = r/s and attack*potency/100 = xn/xd in lowest
\* terms, the largest n with (xd*n)^s * 2^r <= xn^s, or (xd*n)^s <= xn^s \div 2^r.
\* The source evaluates the product in doubles. potency/100 is a double for the
\* potencies 100 and 150; for 58 the nearest double lies below 58/100, and on the
\* attacks 50 and 100 followed here a product that is exactly an integer
\* (defense a multiple k of attack, attack*potency a multiple of 100 * 2^k) then
\* comes out just below it, so that int() yields the integer below.
damageFormula(attack, defense, potency) ==
    LET g  == GCD(attack, defense)
        s  == attack \div g
        r  == defense \div g
        h  == GCD(attack * potency, 100)
        xn == (attack * potency) \div h
        xd == 100 \div h
        exact == SetMax({n \in 0..((attack * potency) \div 100) :
                            Pow(xd * n, s) <= Pow(xn, s) \div Pow(2, r)})
        short == /\ potency \in PotencyBelow
                 /\ s = 1
                 /\ (attack * potency) % (100 * Pow(2, r)) = 0
    IN  IF short THEN exact - 1 ELSE exact

\* Action.healFormula: int(attack/2 * (potency/100) * roll/100)
healFormula(attack, potency, roll) == Trunc(attack * potency * roll, 2 * 100 * 100)

\* Action.dealDamage, the arithmetic: the product of the modifiers accumulated in
\* self.modifiers (num/den) is applied to the raw damage, truncated, and clamped
\* from above by the target's hp.
dealDamage(damage, num, den, target_hp) ==
    LET d == Trunc(damage * num, den)
    IN  IF d > target_hp THEN 0 ELSE target_hp - d

\* Mutant: a heal is not kept
dealHeal_undone(heal, target_hp, target_hp_max) == target_hp

\* Action.dealHeal: the new hp of a target
dealHeal(heal, target_hp, target_hp_max) ==
    IF target_hp + heal > target_hp_max
        THEN target_hp + (target_hp_max - target_hp)
        ELSE target_hp + heal

----------------------------------------------------------------------------
(* Status engine (action_core.py) *)

\* Status(name): Status.__init__ and Status.define
NewStatus(name) ==
    [name |-> name, stack |-> StatusDef(name).starting_stacks,
     duration |-> StatusDef(name).applied_duration]

\* Mutant: the duration is added without the cap
reapply_uncapped(st) ==
    [st EXCEPT !.duration = st.duration + StatusDef(st.name).applied_duration,
               !.stack = Min(st.stack + 1, StatusDef(st.name).max_stacks)]

\* Status.reapply
reapply(st) ==
    [st EXCEPT !.duration = Min(st.duration + StatusDef(st.name).applied_duration,
                                StatusDef(st.name).max_duration),
               !.stack = Min(st.stack + 1, StatusDef(st.name).max_stacks)]

\* Mutant: the duration is not reset when a stack is left
reduce_duration_no_reset(st) ==
    IF st.duration - 1 = 0
        THEN [st EXCEPT !.duration = 0, !.stack = st.stack - 1]
        ELSE [st EXCEPT !.duration = st.duration - 1]

\* Status.reduce_duration (Status.end does nothing)
reduce_duration(st) ==
    IF st.duration - 1 = 0
        THEN IF st.stack - 1 = 0
                THEN [st EXCEPT !.duration = 0, !.stack = 0]
                ELSE [st EXCEPT !.duration = StatusDef(st.name).applied_duration,
                                !.stack = st.stack - 1]
        ELSE [st EXCEPT !.duration = st.duration - 1]

\* Mutant: the product is rounded up instead of truncated
RECURSIVE modify_stat_ceil(_, _, _)
modify_stat_ceil(mods, i, st) ==
    IF i > Len(mods) THEN st
    ELSE modify_stat_ceil(mods, i + 1,
            [st EXCEPT ![mods[i].stat] =
                (st[mods[i].stat] * mods[i].num + mods[i].den - 1) \div mods[i].den])

\* Status.modify_stat: each modifier multiplies the patient's current value
RECURSIVE modify_stat(_, _, _)
modify_stat(mods, i, st) ==
    IF i > Len(mods) THEN st
    ELSE modify_stat(mods, i + 1,
            [st EXCEPT ![mods[i].stat] = Trunc(st[mods[i].stat] * mods[i].num, mods[i].den)])

\* Status.execute(patient)
StatusExecute(status, st) == modify_stat(StatusDef(status.name).stat_modifiers, 1, st)

\* PrepareActor.loop, lines 90-91: every status of the actor executes, in list order
RECURSIVE ExecuteStatuses(_, _, _)
ExecuteStatuses(list, i, st) ==
    IF i > Len(list) THEN st
    ELSE ExecuteStatuses(list, i + 1, StatusExecute(list[i], st))

\* Mutant: the stats are not reset before the statuses execute
NoReset(b) == stats[b]

\* Character.reset_stats
reset_stats(b) == pre_battle_stats(b)

HasStatus(list, name) == \E i \in 1..Len(list) : list[i].name = name

\* Action.apply_status on the patient's status list: the last entry of that name
\* is reapplied, or a fresh Status is appended
apply_status(list, name) ==
    IF HasStatus(list, name)
        THEN LET k == SetMax({i \in 1..Len(list) : list[i].name = name})
             IN  [list EXCEPT ![k] = reapply(list[k])]
        ELSE Append(list, NewStatus(name))

\* Mutant: a self-applied status gets no extra tick
NoExtraTick(list, name) == list

\* Action.statusing, lines 309-311: every status of that name gains one tick
ExtraTick(list, name) ==
    [i \in 1..Len(list) |->
        IF list[i].name = name THEN [list[i] EXCEPT !.duration = list[i].duration + 1]
                               ELSE list[i]]

RECURSIVE StatusActor(_, _, _)
StatusActor(list, names, i) ==
    IF i > Len(names) THEN list
    ELSE StatusActor(ExtraTick(apply_status(list, names[i]), names[i]), names, i + 1)

RECURSIVE StatusTargets(_, _, _, _)
StatusTargets(sts, name, tgts, j) ==
    IF j > Len(tgts) THEN sts
    ELSE StatusTargets([sts EXCEPT ![tgts[j]] = apply_status(sts[tgts[j]], name)],
                       name, tgts, j + 1)

RECURSIVE StatusAllTargets(_, _, _, _)
StatusAllTargets(sts, names, tgts, i) ==
    IF i > Len(names) THEN sts
    ELSE StatusAllTargets(StatusTargets(sts, names[i], tgts, 1), names, tgts, i + 1)

\* Action.statusing: the statuses for the actor first, then those for the targets
statusing(sts, a, act, tgts) ==
    LET s1 == [sts EXCEPT ![act] = StatusActor(sts[act], ActionDef(a).status_for_actor, 1)]
    IN  StatusAllTargets(s1, ActionDef(a).status_for_target, tgts, 1)

\* Action.apply_status, lines 324-329: the status on which reapply is called,
\* if the patient has one of that name
Reapplied(list, name) ==
    IF HasStatus(list, name)
        THEN {list[SetMax({i \in 1..Len(list) : list[i].name = name})]}
        ELSE {}

\* Action.statusing, lines 307-311: the statuses reapplied for the actor, each
\* as it is when reapply is called
RECURSIVE ActorReapplied(_, _, _)
ActorReapplied(list, names, i) ==
    IF i > Len(names) THEN {}
    ELSE Reapplied(list, names[i])
            \cup ActorReapplied(ExtraTick(apply_status(list, names[i]), names[i]),
                                names, i + 1)

\* Action.statusing, lines 316-318: the same for the targets
RECURSIVE TargetsReapplied(_, _, _, _)
TargetsReapplied(sts, name, tgts, j) ==
    IF j > Len(tgts) THEN {}
    ELSE Reapplied(sts[tgts[j]], name)
            \cup TargetsReapplied(
                    [sts EXCEPT ![tgts[j]] = apply_status(sts[tgts[j]], name)],
                    name, tgts, j + 1)

RECURSIVE AllTargetsReapplied(_, _, _, _)
AllTargetsReapplied(sts, names, tgts, i) ==
    IF i > Len(names) THEN {}
    ELSE TargetsReapplied(sts, names[i], tgts, 1)
            \cup AllTargetsReapplied(StatusTargets(sts, names[i], tgts, 1),
                                     names, tgts, i + 1)

\* Every status on which one Action.statusing calls Status.reapply
reapplied(sts, a, act, tgts) ==
    LET s1 == [sts EXCEPT ![act] = StatusActor(sts[act], ActionDef(a).status_for_actor, 1)]
    IN  ActorReapplied(sts[act], ActionDef(a).status_for_actor, 1)
            \cup AllTargetsReapplied(s1, ActionDef(a).status_for_target, tgts, 1)

----------------------------------------------------------------------------
(* Action engine (action_core.py) *)

Attack(a, act) == IF ActionDef(a).is_physical THEN stats[act].strength ELSE stats[act].magic
Defense(a, t)  == IF ActionDef(a).is_physical THEN stats[t].defense ELSE stats[t].mdefense

\* dealDamage, lines 399-400: the target's affinity for the action's element
Affinity(a, t) ==
    IF ActionDef(a).element \in DOMAIN affinities[t]
        THEN affinities[t][ActionDef(a).element]
        ELSE 1

\* Action.damage_single / Action.damage_all over tgts[i..]: self.modifiers is
\* emptied once per execute, so every later target's product (num/den) contains
\* the modifiers rolled for the earlier targets
RECURSIVE Damage(_, _, _, _, _, _, _, _)
Damage(hpf, a, act, tgts, rolls, i, num, den) ==
    IF i > Len(tgts) THEN hpf
    ELSE LET t    == tgts[i]
             raw  == damageFormula(Attack(a, act), Defense(a, t), ActionDef(a).potency)
             num1 == num * rolls[i].variance * Affinity(a, t)
                         * (IF rolls[i].crit THEN CritMultiplier ELSE 1)
             den1 == den * 100
         IN  Damage([hpf EXCEPT ![t] = dealDamage(raw, num1, den1, hpf[t])],
                    a, act, tgts, rolls, i + 1, num1, den1)

\* Action.heal_single / Action.heal_all over tgts[i..]
RECURSIVE Heal(_, _, _, _, _, _)
Heal(hpf, a, act, tgts, rolls, i) ==
    IF i > Len(tgts) THEN hpf
    ELSE LET t == tgts[i]
             h == healFormula(stats[act].magic, ActionDef(a).potency, rolls[i].variance)
         IN  Heal([hpf EXCEPT ![t] = dealHeal(h, hpf[t], hp_max(t))],
                  a, act, tgts, rolls, i + 1)

\* Action.execute, lines 232-248: the primary effect on hp
PrimaryEffect(a, act, tgts, rolls) ==
    LET type == ActionDef(a).type
    IN  CASE type = "Damage Single" -> Damage(hp, a, act, <<tgts[1]>>, rolls, 1, 1, 1)
          [] type = "Damage All"    -> Damage(hp, a, act, tgts, rolls, 1, 1, 1)
          [] type = "Heal Single"   -> Heal(hp, a, act, <<tgts[1]>>, rolls, 1)
          [] type = "Heal All"      -> Heal(hp, a, act, tgts, rolls, 1)
          [] type = "Item Heal"     ->
                [hp EXCEPT ![tgts[1]] = dealHeal(ActionDef(a).potency, hp[tgts[1]],
                                                 hp_max(tgts[1]))]
          [] OTHER                  -> hp

\* Action.execute, line 246
LimitGain(a, l) == IF ActionDef(a).type = "Limit Gain" THEN LimitMax ELSE l

\* Action.apply_costs, lines 357-361: every status of a cost's name loses its stacks
RECURSIVE CostStatuses(_, _, _)
CostStatuses(list, costs, i) ==
    IF i > Len(costs) THEN list
    ELSE CostStatuses(
            [k \in 1..Len(list) |->
                IF list[k].name = costs[i].name
                    THEN [list[k] EXCEPT !.stack = list[k].stack - costs[i].stack]
                    ELSE list[k]],
            costs, i + 1)

\* Action.apply_costs, lines 363-364
CostMp(a, m) == IF ActionDef(a).mp_cost > 0 THEN m - ActionDef(a).mp_cost ELSE m

HasItem(inv, name) == \E i \in 1..Len(inv) : inv[i].name = name

\* Mutant: everything from the removed place on leaves the list
RemoveFrom(s, k) == SubSeq(s, 1, k - 1)

RemoveAt(s, k) == [i \in 1..(Len(s) - 1) |-> IF i < k THEN s[i] ELSE s[i + 1]]

\* Action.apply_costs, lines 366-376
CostInventory(a, inv) ==
    IF ActionDef(a).mp_cost <= 0 /\ ActionDef(a).class = "Item_Action" /\ HasItem(inv, a)
        THEN LET k == CHOOSE i \in 1..Len(inv) :
                        inv[i].name = a /\ \A j \in 1..(i - 1) : inv[j].name # a
             IN  IF inv[k].quantity - 1 = 0
                    THEN RemoveAt(inv, k)
                    ELSE [inv EXCEPT ![k].quantity = inv[k].quantity - 1]
        ELSE inv

\* Action.apply_costs, lines 366-373: the reason it returns ("none" = None)
apply_costs_return(a, inv) ==
    IF ActionDef(a).mp_cost <= 0 /\ ActionDef(a).class = "Item_Action" /\ ~HasItem(inv, a)
        THEN "No item in inventory"
        ELSE "none"

\* Action.execute, lines 250-253: apply_costs is called as a statement, so its
\* reason is dropped; the caller gets the log lines and no reason
execute_reason(a, inv) == LET dropped == apply_costs_return(a, inv) IN "none"

\* Action.apply_costs, lines 378-379
CostLimit(a, l) ==
    IF ActionDef(a).mp_cost <= 0 /\ ActionDef(a).class # "Item_Action"
            /\ ActionDef(a).class = "Limit"
        THEN 0 ELSE l

\* Mutant: a status whose stacks are spent is dropped at once
apply_costs_dropping(list, a) ==
    LET Left(st) == st.stack > 0
    IN  SelectSeq(CostStatuses(list, ActionDef(a).status_costs, 1), Left)

\* Action.apply_costs on the actor's status list
apply_costs(list, a) == CostStatuses(list, ActionDef(a).status_costs, 1)

\* Action.dealDamage, lines 402-404 and 414: its log lines for tgts[i..]
RECURSIVE DamageLog(_, _, _)
DamageLog(tgts, rolls, i) ==
    IF i > Len(tgts) THEN <<>>
    ELSE (IF rolls[i].crit THEN <<<<"A critical hit!">>>> ELSE <<>>)
            \o <<<<"took damage", tgts[i]>>>> \o DamageLog(tgts, rolls, i + 1)

\* Action.dealHeal, line 430: its log line for each of tgts
HealLog(tgts) == [i \in 1..Len(tgts) |-> <<"healed", tgts[i]>>]

\* Action.execute, lines 221 and 253: the log lines it returns (amounts left
\* out); Action.apply_costs adds none
execute_log(a, act, tgts, rolls) ==
    LET type == ActionDef(a).type
    IN  <<<<"used", act, a>>>> \o
        (CASE type = "Damage Single" -> DamageLog(<<tgts[1]>>, rolls, 1)
           [] type = "Damage All"    -> DamageLog(tgts, rolls, 1)
           [] type = "Heal Single"   -> HealLog(<<tgts[1]>>)
           [] type = "Heal All"      -> HealLog(tgts)
           [] type = "Item Heal"     -> HealLog(<<tgts[1]>>)
           [] OTHER                  -> <<>>)

\* Mutant: only the mp is looked at
check_costs_mp_only(a, act) == mp[act] >= ActionDef(a).mp_cost

\* Action.check_costs: TRUE when it returns None
check_costs(a, act) ==
    /\ mp[act] >= ActionDef(a).mp_cost
    /\ \A i \in 1..Len(ActionDef(a).status_costs) :
          LET c == ActionDef(a).status_costs[i]
          IN  /\ HasStatus(statuses[act], c.name)
              /\ LET k == CHOOSE j \in 1..Len(statuses[act]) :
                              /\ statuses[act][j].name = c.name
                              /\ \A m \in 1..(j - 1) : statuses[act][m].name # c.name
                 IN  statuses[act][k].stack >= c.stack

\* The rolls of random.randint(85, 115) the model follows, and of the critical hit
VarianceRolls == {85, 100, 115}
Rolls == [variance : VarianceRolls, crit : BOOLEAN]

\* Action.execute(actor, targets, battle)
execute(a, act, tgts, rolls) ==
    LET s1 == statusing(statuses, a, act, tgts)
    IN  /\ hp' = PrimaryEffect(a, act, tgts, rolls)
        /\ limit' = [limit EXCEPT ![act] = CostLimit(a, LimitGain(a, limit[act]))]
        /\ statuses' = [s1 EXCEPT ![act] = apply_costs(s1[act], a)]
        /\ mp' = [mp EXCEPT ![act] = CostMp(a, mp[act])]
        /\ inventory' = CostInventory(a, inventory)

----------------------------------------------------------------------------
(* Battle setup (battle.py, character.py) *)

\* Battle.preparation draws each gauge with random.randint(0, 15); the model
\* follows the draw 0, the one suite.py stubs
InitAtb == {0}

\* Character.__init__: every element starts at multiplier 1; battlers.csv overrides
DefaultAffinities == [e \in Elements |-> 1]

CatalogAffinities ==
    [b \in Battlers |->
        IF b = "Slime" THEN [DefaultAffinities EXCEPT !["Fire"] = 2]
                       ELSE DefaultAffinities]

\* A battlers.csv in which the Slime absorbs Fire
AbsorbAffinities ==
    [b \in Battlers |->
        IF b = "Slime" THEN [DefaultAffinities EXCEPT !["Fire"] = -1]
                       ELSE DefaultAffinities]

\* Character.prepare_for_battle: Attack, the ability command, Magic; Item is
\* the shared inventory
CatalogCommands ==
    [b \in Battlers |->
        CASE b = "Hero" -> {"Attack", "Focus", "Smash", "Potion"}
          [] b = "Mage" -> {"Attack", "Fire", "Cure", "Potion"}
          [] OTHER      -> {"Attack"}]

\* Battle.__init__ and Battle.preparation
InitBattle ==
    /\ state = "Waiting"
    /\ actor = "none"
    /\ tie_winner = "none"
    /\ action = "none"
    /\ targets = <<>>
    /\ battlers = party \o enemies
    /\ graveyard = <<>>
    /\ ready_actors = <<>>
    /\ outcome = "none"
    /\ limit = [b \in Battlers |-> 0]
    /\ statuses = [b \in Battlers |-> <<>>]
    /\ error = "none"
    /\ log_messages = <<>>
    /\ behaviour_log = [b \in Battlers |-> <<>>]
    /\ turns = 0

InitCommon ==
    /\ InitBattle
    /\ commands = CatalogCommands
    /\ inventory = <<[name |-> "Potion", quantity |-> 2]>>

\* Character.define and Character.rest leave hp and mp at their maxima, and
\* Character.prepare_for_battle snapshots the stats the battler comes with
Rested ==
    /\ hp = [b \in Battlers |-> hp_max(b)]
    /\ mp = [b \in Battlers |-> mp_max(b)]

Prepared ==
    /\ atb \in [Battlers -> InitAtb]
    /\ stats = [b \in Battlers |-> pre_battle_stats(b)]

Init == InitCommon /\ Rested /\ Prepared /\ affinities = CatalogAffinities

InitAbsorb == InitCommon /\ Rested /\ Prepared /\ affinities = AbsorbAffinities

\* Character.prepare_for_battle restores neither hp nor mp: a party that has not
\* rested since an earlier encounter enters the next one with what it had left
InitSpent ==
    /\ InitCommon /\ Prepared /\ affinities = CatalogAffinities
    /\ hp = [b \in Battlers |-> hp_max(b)]
    /\ mp = [b \in Battlers |-> 0]

\* The shared inventory outlives an encounter: the Potions are used up, the
\* Item command still names them
InitUsedUp ==
    /\ InitBattle /\ Rested /\ Prepared /\ affinities = CatalogAffinities
    /\ commands = CatalogCommands
    /\ inventory = <<[name |-> "Elixir", quantity |-> 1]>>

\* The party comes with one mp each
InitLowMp ==
    /\ InitCommon /\ Prepared /\ affinities = CatalogAffinities
    /\ hp = [b \in Battlers |-> hp_max(b)]
    /\ mp = [b \in Battlers |-> Min(1, mp_max(b))]

InitWounded ==
    /\ InitCommon /\ Prepared /\ affinities = CatalogAffinities
    /\ hp = [b \in Battlers |-> IF b \in Range(party) THEN 1 ELSE hp_max(b)]
    /\ mp = [b \in Battlers |-> mp_max(b)]

\* A party whose commands are a party-wide buff, a buff that comes with two
\* stacks, an action paid in stacks and an item that also costs mp
TacticsCommands ==
    [b \in Battlers |->
        CASE b = "Hero" -> {"Attack", "Rally", "Hurry", "Vent"}
          [] b = "Mage" -> {"Fire", "Elixir"}
          [] OTHER      -> {"Attack"}]

InitTactics ==
    /\ InitBattle /\ Rested /\ Prepared /\ affinities = CatalogAffinities
    /\ commands = TacticsCommands
    /\ inventory = <<[name |-> "Potion", quantity |-> 2], [name |-> "Elixir", quantity |-> 1]>>

----------------------------------------------------------------------------
(* Turn state machine (battle.py): one action per BattleState.loop *)

Running == error = "none"

\* Mutant: the head of the list is taken, whoever is asked for
IndexOfHead(s, x) == 1

Index(s, x) == CHOOSE i \in 1..Len(s) : s[i] = x /\ \A j \in 1..(i - 1) : s[j] # x

\* Mutant: the slower a battler, the faster its gauge fills
FilledSlowFirst(dt) ==
    [b \in Battlers |->
        IF b \in Range(battlers) THEN atb[b] + (100 - stats[b].speed) * dt * AtbRate
                                  ELSE atb[b]]

\* Mutant: the rate constant is left out of the fill
FilledUnscaled(dt) ==
    [b \in Battlers |->
        IF b \in Range(battlers) THEN atb[b] + stats[b].speed * dt ELSE atb[b]]

\* Waiting.loop, lines 42-45: the gauges after the fill
Filled(dt) ==
    [b \in Battlers |->
        IF b \in Range(battlers) THEN atb[b] + stats[b].speed * dt * AtbRate ELSE atb[b]]

\* Mutant: the gauges fill although somebody is ready
QueueNeverBusy == FALSE

\* Mutant: a single ready battler is overlooked, the gauges fill again
QueueBusyWhenTied == Len(ready_actors) > 1

\* Waiting.loop, line 35: somebody is ready, the gauges do not fill
QueueBusy == ready_actors # <<>>

\* Waiting.loop
WaitingLoop(dt) ==
    /\ Running
    /\ state = "Waiting"
    /\ turns < MaxTurns
    /\ IF QueueBusy
         THEN /\ IF Len(ready_actors) > 1
                    THEN state' = "SpeedTie" /\ actor' = "none"
                    ELSE state' = "PrepareActor" /\ actor' = ready_actors[1]
              /\ UNCHANGED <<atb, ready_actors>>
         ELSE /\ atb' = Filled(dt)
              /\ ready_actors' =
                    LET IsReady(b) == Filled(dt)[b] >= READY_THRESHOLD
                    IN  ready_actors \o SelectSeq(battlers, IsReady)
              /\ UNCHANGED <<state, actor>>
    /\ UNCHANGED <<tie_winner, action, targets, battlers, graveyard, outcome, hp, mp,
                   limit, stats, statuses, affinities, commands, inventory, error, turns>>
    /\ log_messages' = <<>>
    /\ UNCHANGED behaviour_log

\* Mutant: the tie winner is drawn from the whole roster
tie_candidates_roster == Range(battlers)

\* SpeedTie.loop, line 60: random.choice(battle.ready_actors)
tie_candidates == Range(ready_actors)

\* SpeedTie.loop
SpeedTieLoop ==
    /\ Running
    /\ state = "SpeedTie"
    /\ IF \A i \in 1..Len(ready_actors) : is_controllable(ready_actors[i])
         THEN /\ state' = "WaitingForTie" /\ actor' = "none"
              /\ log_messages' = <<<<"Speed tie!">>>>
         ELSE \E w \in tie_candidates :
                /\ state' = "PrepareActor" /\ actor' = w
                /\ log_messages' = <<<<"Speed tie!">>, <<"wins the speed tie!", w>>>>
    /\ tie_winner' = "none"
    /\ UNCHANGED <<action, targets, battlers, graveyard, ready_actors, outcome, hp, mp,
                   limit, atb, stats, statuses, affinities, commands, inventory, error, turns>>
    /\ UNCHANGED behaviour_log

\* Mutant: the tie is taken as decided before a winner is named
TieDecidedAlways == TRUE

\* WaitingForTie.loop, line 73: a tie winner has been named
TieDecided == tie_winner # "none"

\* WaitingForTie.loop
WaitingForTieLoop ==
    /\ Running
    /\ state = "WaitingForTie"
    /\ IF TieDecided
         THEN /\ state' = "PrepareActor" /\ actor' = tie_winner
              /\ log_messages' = <<<<"wins the speed tie!", tie_winner>>>>
         ELSE /\ UNCHANGED <<state, actor>>
              /\ log_messages' = <<>>
    /\ UNCHANGED <<tie_winner, action, targets, battlers, graveyard, ready_actors,
                   outcome, hp, mp, limit, atb, stats, statuses, affinities, commands,
                   inventory, error, turns>>
    /\ UNCHANGED behaviour_log

\* The decision source names the tie winner among WaitingForTie.people_in_tie
SupplyTieWinner ==
    /\ Running
    /\ state = "WaitingForTie"
    /\ tie_winner = "none"
    /\ \E w \in Range(ready_actors) : tie_winner' = w
    /\ UNCHANGED <<state, actor, action, targets, battlers, graveyard, ready_actors,
                   outcome, hp, mp, limit, atb, stats, statuses, affinities, commands,
                   inventory, error, turns>>
    /\ UNCHANGED <<log_messages, behaviour_log>>

\* PrepareActor.loop
PrepareActorLoop ==
    /\ Running
    /\ state = "PrepareActor"
    /\ stats' = [stats EXCEPT ![actor] = ExecuteStatuses(statuses[actor], 1,
                                                        reset_stats(actor))]
    /\ state' = IF is_controllable(actor) THEN "ControlledTurn" ELSE "AITurn"
    /\ action' = "none"
    /\ targets' = <<>>
    /\ UNCHANGED <<actor, tie_winner, battlers, graveyard, ready_actors, outcome, hp, mp,
                   limit, atb, statuses, affinities, commands, inventory, error, turns>>
    /\ log_messages' = <<>>
    /\ UNCHANGED behaviour_log

\* The roster members of a side, in roster order
OnSide(side) == LET In(b) == b \in Range(side) IN SelectSeq(battlers, In)

\* BattleUI.setup_target_menu: the targets offered for an action are the
\* battlers outside the graveyard that its targeting rule names; a rule for
\* all of a side takes all of them, any other rule one of them
TargetLists(a, act) ==
    LET rule == ActionDef(a).targetting
        One(side) == {<<side[i]>> : i \in 1..Len(side)}
    IN  CASE rule = "Self"          -> {<<act>>}
          [] rule = "Single Enemy"  -> One(OnSide(enemies))
          [] rule = "Single Ally"   -> One(OnSide(party))
          [] rule = "All Enemies"   -> {OnSide(enemies)} \ {<<>>}
          [] rule = "All Allies"    -> {OnSide(party)} \ {<<>>}
          [] rule = "All"           -> {battlers} \ {<<>>}
          [] OTHER                  -> One(battlers)

\* The decision source sets ControlledTurn.action and ControlledTurn.targets; like
\* the action menu (ui_copy.py, line 474) it offers an action only when the actor
\* has the mp for it
SupplyDecision ==
    /\ Running
    /\ state = "ControlledTurn"
    /\ action = "none"
    /\ \E a \in commands[actor] : \E t \in TargetLists(a, actor) :
          /\ mp[actor] >= ActionDef(a).mp_cost
          /\ action' = a
          /\ targets' = t
    /\ UNCHANGED <<state, actor, tie_winner, battlers, graveyard, ready_actors, outcome,
                   hp, mp, limit, atb, stats, statuses, affinities, commands, inventory,
                   error, turns>>
    /\ UNCHANGED <<log_messages, behaviour_log>>

\* ControlledTurn.loop
ControlledTurnLoop ==
    /\ Running
    /\ state = "ControlledTurn"
    /\ IF action # "none" /\ targets # <<>>
         THEN /\ \E rolls \in [1..Len(targets) -> Rolls] :
                    /\ execute(action, actor, targets, rolls)
                    /\ log_messages' = execute_log(action, actor, targets, rolls)
              /\ state' = "CheckingDeath"
         ELSE /\ UNCHANGED <<state, hp, mp, limit, statuses, inventory>>
              /\ log_messages' = <<>>
    /\ UNCHANGED <<actor, tie_winner, action, targets, battlers, graveyard, ready_actors,
                   outcome, atb, stats, affinities, commands, error, turns>>
    /\ UNCHANGED behaviour_log

\* Behaviour.random_attack, lines 39-44: the living members of the opposing side
Opposing(act) == IF act \in Range(party) THEN enemies ELSE party

Candidates(act) == {t \in Range(Opposing(act)) : hp[t] > 0}

\* Behaviour.execute / Behaviour.random_attack with a candidate to choose: the
\* basic attack on a living member of the opposing side; its lines are added
\* to the Behaviour's own log_messages, which Behaviour.execute returns
behaviour_execute(act) ==
    \E t \in Candidates(act), rolls \in [1..1 -> Rolls] :
        /\ execute(basic_attack, act, <<t>>, rolls)
        /\ behaviour_log' =
              [behaviour_log EXCEPT ![act] =
                  @ \o execute_log(basic_attack, act, <<t>>, rolls)]

\* AITurn.loop with Behaviour.execute / Behaviour.random_attack; random.choice of
\* an empty list raises IndexError
AITurnLoop ==
    /\ Running
    /\ state = "AITurn"
    /\ IF Candidates(actor) = {}
         THEN /\ error' = "IndexError"
              /\ UNCHANGED <<state, hp, mp, limit, statuses, inventory, log_messages,
                             behaviour_log>>
         ELSE /\ behaviour_execute(actor)
              /\ log_messages' = behaviour_log'[actor]
              /\ state' = "CheckingDeath"
              /\ error' = error
    /\ UNCHANGED <<actor, tie_winner, action, targets, battlers, graveyard, ready_actors,
                   outcome, atb, stats, affinities, commands, turns>>

\* CheckingDeath.loop
CheckingDeathLoop ==
    /\ Running
    /\ state = "CheckingDeath"
    /\ state' = IF \E b \in Range(battlers) : hp[b] = 0 THEN "Burying" ELSE "EndingTurn"
    /\ UNCHANGED <<actor, tie_winner, action, targets, battlers, graveyard, ready_actors,
                   outcome, hp, mp, limit, atb, stats, statuses, affinities, commands,
                   inventory, error, turns>>
    /\ log_messages' = <<>>
    /\ UNCHANGED behaviour_log

\* Mutant: the spent statuses are not filtered out
EndStatusesKeepSpent(list) == [i \in 1..Len(list) |-> reduce_duration(list[i])]

\* EndingTurn.loop, lines 151-154: the durations fall, the spent statuses go
EndStatuses(list) ==
    LET reduced == [i \in 1..Len(list) |-> reduce_duration(list[i])]
        Alive(st) == st.stack > 0
    IN  SelectSeq(reduced, Alive)

\* EndingTurn.loop; list.remove of an absent actor raises ValueError
EndingTurnLoop ==
    /\ Running
    /\ state = "EndingTurn"
    /\ IF actor \in Range(ready_actors)
         THEN /\ ready_actors' = RemoveAt(ready_actors, Index(ready_actors, actor))
              /\ atb' = [atb EXCEPT ![actor] = atb[actor] - READY_THRESHOLD]
              /\ statuses' = [statuses EXCEPT ![actor] = EndStatuses(statuses[actor])]
              /\ state' = "Waiting"
              /\ actor' = "none"
              /\ error' = error
              /\ turns' = turns + 1
         ELSE /\ error' = "ValueError"
              /\ UNCHANGED <<state, actor, ready_actors, atb, statuses, turns>>
    /\ UNCHANGED <<tie_winner, action, targets, battlers, graveyard, outcome, hp, mp,
                   limit, stats, affinities, commands, inventory>>
    /\ log_messages' = <<>>
    /\ UNCHANGED behaviour_log

\* Burying.loop, lines 164-167: the index of the last roster member with hp 0
dying_battler_index == SetMax({i \in 1..Len(battlers) : hp[battlers[i]] = 0})

\* Mutant: any() in place of all()
AnyIn(side, yard) == \E i \in 1..Len(side) : side[i] \in Range(yard)

\* Burying.loop, lines 171 and 173: all(battler in battle.graveyard for ...)
AllIn(side, yard) == \A i \in 1..Len(side) : side[i] \in Range(yard)

\* Mutant: every dead battler leaves the roster at once
RosterWithoutDead == LET Alive(b) == hp[b] # 0 IN SelectSeq(battlers, Alive)

\* Mutant: the dead battler is copied to the graveyard, not moved
RosterKept == battlers

\* Burying.loop, line 168: battle.battlers.pop(dying_battler_index)
RosterAfterBurial == RemoveAt(battlers, dying_battler_index)

\* Burying.loop (entered only from CheckingDeath, with a dead roster member)
BuryingLoop ==
    /\ Running
    /\ state = "Burying"
    /\ atb' = [b \in Battlers |->
                  IF b \in Range(battlers) /\ hp[b] = 0 THEN 0 ELSE atb[b]]
    /\ graveyard' = Append(graveyard, battlers[dying_battler_index])
    /\ battlers' = RosterAfterBurial
    /\ IF AllIn(party, graveyard') THEN state' = "Loss" /\ actor' = "none"
       ELSE IF AllIn(enemies, graveyard') THEN state' = "Victory" /\ actor' = "none"
       ELSE state' = "EndingTurn" /\ actor' = actor
    /\ UNCHANGED <<tie_winner, action, targets, ready_actors, outcome, hp, mp, limit,
                   stats, statuses, affinities, commands, inventory, error, turns>>
    /\ log_messages' = <<>>
    /\ UNCHANGED behaviour_log

\* Mutant: Victory.loop copies Loss.loop's assignment
VictoryOutcomeSwapped == "Defeat"

\* Victory.loop, line 182, and Loss.loop, line 190
VictoryOutcome == "Victory"

LossOutcome == "Defeat"

\* Victory.loop
VictoryLoop ==
    /\ Running
    /\ state = "Victory"
    /\ outcome' = VictoryOutcome
    /\ UNCHANGED <<state, actor, tie_winner, action, targets, battlers, graveyard,
                   ready_actors, hp, mp, limit, atb, stats, statuses, affinities,
                   commands, inventory, error, turns>>
    /\ log_messages' = <<>>
    /\ UNCHANGED behaviour_log

\* Loss.loop
LossLoop ==
    /\ Running
    /\ state = "Loss"
    /\ outcome' = LossOutcome
    /\ UNCHANGED <<state, actor, tie_winner, action, targets, battlers, graveyard,
                   ready_actors, hp, mp, limit, atb, stats, statuses, affinities,
                   commands, inventory, error, turns>>
    /\ log_messages' = <<>>
    /\ UNCHANGED behaviour_log

\* Battle.loop(dt): the current state's loop runs once
Tick ==
    \/ \E dt \in DtValues : WaitingLoop(dt)
    \/ SpeedTieLoop
    \/ WaitingForTieLoop
    \/ PrepareActorLoop
    \/ ControlledTurnLoop
    \/ AITurnLoop
    \/ CheckingDeathLoop
    \/ EndingTurnLoop
    \/ BuryingLoop
    \/ VictoryLoop
    \/ LossLoop

Next == Tick \/ SupplyTieWinner \/ SupplyDecision

Spec == Init /\ [][Next]_vars

SpecAbsorb == InitAbsorb /\ [][Next]_vars

\* The host keeps calling Battle.loop with dt > 0 and the decision source
\* answers every ControlledTurn and every tie
SpecFair ==
    /\ Init /\ [][Next]_vars
    /\ WF_vars(Tick) /\ WF_vars(SupplyTieWinner) /\ WF_vars(SupplyDecision)

\* A party that knows the basic attack only (it can hit any battler of the
\* roster, an ally or the attacker included)
DrillCommands == [b \in Battlers |-> {"Attack"}]

InitDrill ==
    /\ InitBattle /\ Rested /\ Prepared /\ affinities = CatalogAffinities
    /\ commands = DrillCommands
    /\ inventory = <<[name |-> "Potion", quantity |-> 2]>>

\* the dt values of a host that calls Battle.loop at a fixed frame time
DrillDts == {2}

TickDrill ==
    \/ \E dt \in DrillDts : WaitingLoop(dt)
    \/ SpeedTieLoop
    \/ WaitingForTieLoop
    \/ PrepareActorLoop
    \/ ControlledTurnLoop
    \/ AITurnLoop
    \/ CheckingDeathLoop
    \/ EndingTurnLoop
    \/ BuryingLoop
    \/ VictoryLoop
    \/ LossLoop

NextDrill == TickDrill \/ SupplyTieWinner \/ SupplyDecision

\* The host keeps calling Battle.loop with its frame time and the decision
\* source answers every ControlledTurn and every tie
SpecDrill ==
    /\ InitDrill /\ [][NextDrill]_vars
    /\ WF_vars(TickDrill) /\ WF_vars(SupplyTieWinner) /\ WF_vars(SupplyDecision)

\* A decision source that sets ControlledTurn.action and ControlledTurn.targets
\* itself, without asking Action.check_costs or a menu
SupplyDirect ==
    /\ Running
    /\ state = "ControlledTurn"
    /\ action = "none"
    /\ \E a \in commands[actor] : \E t \in TargetLists(a, actor) :
          /\ action' = a
          /\ targets' = t
    /\ UNCHANGED <<state, actor, tie_winner, battlers, graveyard, ready_actors, outcome,
                   hp, mp, limit, atb, stats, statuses, affinities, commands, inventory,
                   error, turns>>
    /\ UNCHANGED <<log_messages, behaviour_log>>

NextDirect == Tick \/ SupplyTieWinner \/ SupplyDirect

\* The party comes with its mp spent and the decisions are set directly
SpecDirect == InitSpent /\ [][NextDirect]_vars

\* The Potions are used up
SpecUsedUp == InitUsedUp /\ [][Next]_vars

\* A decision source that sets ControlledTurn.action first (from the menu, which
\* offers what the actor has the mp for) and ControlledTurn.targets afterwards
SupplyAction ==
    /\ Running
    /\ state = "ControlledTurn"
    /\ action = "none"
    /\ \E a \in commands[actor] :
          /\ mp[actor] >= ActionDef(a).mp_cost
          /\ action' = a
    /\ UNCHANGED <<state, actor, tie_winner, targets, battlers, graveyard, ready_actors,
                   outcome, hp, mp, limit, atb, stats, statuses, affinities, commands,
                   inventory, error, log_messages, behaviour_log, turns>>

SupplyTargets ==
    /\ Running
    /\ state = "ControlledTurn"
    /\ action # "none"
    /\ targets = <<>>
    /\ \E t \in TargetLists(action, actor) : targets' = t
    /\ UNCHANGED <<state, actor, tie_winner, action, battlers, graveyard, ready_actors,
                   outcome, hp, mp, limit, atb, stats, statuses, affinities, commands,
                   inventory, error, log_messages, behaviour_log, turns>>

NextStepwise == Tick \/ SupplyTieWinner \/ SupplyAction \/ SupplyTargets

\* The decision arrives in two parts
SpecStepwise == Init /\ [][NextStepwise]_vars

\* The party comes with one mp each and the decisions are set directly
SpecLowMp == InitLowMp /\ [][NextDirect]_vars

\* The party comes wounded
SpecWounded == InitWounded /\ [][Next]_vars

\* The party of the buffs and the mp-priced item
SpecTactics == InitTactics /\ [][Next]_vars

\* Battle.conclude: reset_stats for the battlers of battle.battlers
conclude(st) ==
    [b \in Battlers |-> IF b \in Range(battlers) THEN reset_stats(b) ELSE st[b]]

\* The host concludes the encounter once it has an outcome
Conclude ==
    /\ Running
    /\ outcome # "none"
    /\ stats' = conclude(stats)
    /\ UNCHANGED <<state, actor, tie_winner, action, targets, battlers, graveyard,
                   ready_actors, outcome, hp, mp, limit, atb, statuses, affinities,
                   commands, inventory, error, turns>>
    /\ UNCHANGED <<log_messages, behaviour_log>>

NextConclude == Tick \/ SupplyTieWinner \/ SupplyDecision \/ Conclude

SpecConclude == Init /\ [][NextConclude]_vars

----------------------------------------------------------------------------
(* The scheduler on its own: the Waiting advances from Battle setup, for
   battlers of nearly equal speed and the extreme draws of the initial gauge *)

\* Battle.preparation, line 222: the least and the greatest draw of randint(0, 15)
GaugeDraws == {0, 15}

\* Speeds of battlers.csv rows that differ by less than the draw can make up
SpeedValues == {57, 58, 59}

InitGauge ==
    /\ InitCommon /\ Rested /\ affinities = CatalogAffinities
    /\ atb \in [Battlers -> GaugeDraws]
    /\ \E sp \in [Battlers -> SpeedValues] :
          stats = [b \in Battlers |-> [pre_battle_stats(b) EXCEPT !.speed = sp[b]]]

GaugeTick == \E dt \in DtValues : WaitingLoop(dt)

SpecGauge == InitGauge /\ [][GaugeTick]_vars

----------------------------------------------------------------------------
(* The damage arithmetic on its own: Action.execute of a single-target damage
   action by the Hero on the Slime, the generator stubbed as in suite.py
   (variance 100, no critical hit), for several attacks, defenses and hp *)

AttackValues == {50, 100}
DefenseValues == {0, 50, 100}
StartHp == 1..60

\* suite.py, fixed_randint
FixedRoll == [variance |-> 100, crit |-> FALSE]

InitDamage ==
    /\ InitCommon /\ affinities = CatalogAffinities
    /\ atb \in [Battlers -> InitAtb]
    /\ mp = [b \in Battlers |-> mp_max(b)]
    /\ \E att \in AttackValues, de \in DefenseValues :
          stats = [b \in Battlers |->
                     IF b = "Hero" THEN [pre_battle_stats(b) EXCEPT !.strength = att]
                     ELSE IF b = "Slime" THEN [pre_battle_stats(b) EXCEPT !.defense = de]
                     ELSE pre_battle_stats(b)]
    /\ \E h \in StartHp :
          hp = [b \in Battlers |-> IF b = "Slime" THEN h ELSE hp_max(b)]

DamageStep ==
    /\ \E a \in {"Attack", "Jab"} :
          execute(a, "Hero", <<"Slime">>, [i \in 1..1 |-> FixedRoll])
    /\ UNCHANGED <<state, actor, tie_winner, action, targets, battlers, graveyard,
                   ready_actors, outcome, atb, stats, affinities, commands, error, turns>>
    /\ UNCHANGED <<log_messages, behaviour_log>>

SpecDamage == InitDamage /\ [][DamageStep]_vars

----------------------------------------------------------------------------
(* The status engine on its own: Action.apply_status called on a party member
   with a status of the catalog, any number of times in succession *)

ApplyStatusStep ==
    /\ \E b \in Range(party), name \in StatusNames :
          statuses' = [statuses EXCEPT ![b] = apply_status(statuses[b], name)]
    /\ UNCHANGED <<state, actor, tie_winner, action, targets, battlers, graveyard,
                   ready_actors, outcome, hp, mp, limit, atb, stats, affinities,
                   commands, inventory, error, turns>>
    /\ UNCHANGED <<log_messages, behaviour_log>>

SpecApplyStatus == Init /\ [][ApplyStatusStep]_vars

----------------------------------------------------------------------------
(* The default policy on its own: the lines of AITurn.loop, line 125, for the
   Slime turn after turn, nothing else happening in between *)

BehaviourStep ==
    /\ Candidates("Slime") # {}
    /\ behaviour_execute("Slime")
    /\ log_messages' = behaviour_log'["Slime"]
    /\ UNCHANGED <<state, actor, tie_winner, action, targets, battlers, graveyard,
                   ready_actors, outcome, atb, stats, affinities, commands, error, turns>>

SpecBehaviour == Init /\ [][BehaviourStep]_vars

----------------------------------------------------------------------------
(* Properties *)

Terminal == state \in {"Victory", "Loss"}

StatusesOf(b) == {statuses[b][i] : i \in 1..Len(statuses[b])}

Count(list, x) == Cardinality({i \in 1..Len(list) : list[i] = x})

\* C1: every battler's hp lies in 0..hp_max in every reachable state, whatever
\* the variance roll, the critical roll and the target's affinity multiplier.
C1_HpInRange == \A b \in Battlers : 0 <= hp[b] /\ hp[b] <= hp_max(b)

\* C2 as claimed: every attached status has 1 <= stack <= max_stacks and
\* 0 <= duration <= max_duration in every state, the ticks between an action's
\* resolution and the actor's EndingTurn included.
C2_StatusBoundsAlways ==
    \A b \in Battlers : \A st \in StatusesOf(b) :
        /\ 1 <= st.stack /\ st.stack <= StatusDef(st.name).max_stacks
        /\ 0 <= st.duration /\ st.duration <= StatusDef(st.name).max_duration

\* The states from the end of a turn up to the resolution of the next action
BetweenTurns ==
    state \in {"Waiting", "SpeedTie", "WaitingForTie", "PrepareActor",
               "ControlledTurn", "AITurn"}

\* C2 amended: in every state stack <= max_stacks and
\* 0 <= duration <= max_duration + 1; from the end of a turn until the next
\* action resolves, also 1 <= stack and duration <= max_duration.
C2_StatusBoundsAmended ==
    \A b \in Battlers : \A st \in StatusesOf(b) :
        /\ st.stack <= StatusDef(st.name).max_stacks
        /\ 0 <= st.duration /\ st.duration <= StatusDef(st.name).max_duration + 1
        /\ BetweenTurns =>
              /\ 1 <= st.stack
              /\ st.duration <= StatusDef(st.name).max_duration

\* A status an action applied to its own actor carries the extra tick, past
\* max_duration, before the actor's EndingTurn
C2_Witness ==
    /\ state = "CheckingDeath"
    /\ \E st \in StatusesOf(actor) :
          st.duration = StatusDef(st.name).max_duration + 1

\* C3: Loss is entered, and the outcome is Defeat, only with every party member
\* in the graveyard, and Loss is entered by the Burying step that buries a party
\* member; the same for Victory and the enemies.
C3_WipedSide(st) == IF st = "Loss" THEN party ELSE enemies

C3_OutcomeOnlyWhenWiped ==
    /\ [](/\ state = "Loss" => \A i \in 1..Len(party) : party[i] \in Range(graveyard)
          /\ state = "Victory" => \A i \in 1..Len(enemies) : enemies[i] \in Range(graveyard)
          /\ outcome = "Defeat" => \A i \in 1..Len(party) : party[i] \in Range(graveyard)
          /\ outcome = "Victory" =>
                \A i \in 1..Len(enemies) : enemies[i] \in Range(graveyard))
    /\ [][(state' \in {"Victory", "Loss"} /\ state' # state) =>
            /\ state = "Burying"
            /\ \E b \in Range(C3_WipedSide(state')) :
                  /\ b \notin Range(graveyard)
                  /\ graveyard' = Append(graveyard, b)
                  /\ \A c \in Range(C3_WipedSide(state')) \ {b} : c \in Range(graveyard)]_vars

C3_Witness == state = "Loss" /\ outcome = "Defeat" /\ Len(graveyard) >= Len(party)

\* C4: every battler is in exactly one of the roster and the graveyard, once; it
\* moves from the roster to the graveyard only in Burying and never moves back.
C4_ExclusiveOwnership ==
    /\ [](\A b \in Battlers : Count(battlers, b) + Count(graveyard, b) = 1)
    /\ [][/\ (battlers' # battlers \/ graveyard' # graveyard) =>
                /\ state = "Burying"
                /\ \E b \in Range(battlers) :
                      /\ graveyard' = Append(graveyard, b)
                      /\ Range(battlers') = Range(battlers) \ {b}
          /\ Range(graveyard) \subseteq Range(graveyard')]_vars

C4_Witness == Len(graveyard) = 2 /\ Len(battlers) = 1

\* C5: the ready queue never holds a battler twice.
C5_NoDuplicateReady ==
    \A i, j \in 1..Len(ready_actors) : i # j => ready_actors[i] # ready_actors[j]

\* Two battlers are ready after a turn that left a carry-over above the threshold
C5_Witness ==
    /\ Len(ready_actors) >= 2
    /\ turns >= 1
    /\ \E b \in Battlers : b \notin Range(ready_actors) /\ atb[b] >= READY_THRESHOLD

\* C6: the Waiting advance that brings battlers to the threshold ends in SpeedTie
\* (more than one ready) or PrepareActor (exactly one ready).
C6_TransitionInFillingAdvance ==
    [][(state = "Waiting" /\ ready_actors = <<>> /\ ready_actors' # <<>>) =>
          state' = IF Len(ready_actors') > 1 THEN "SpeedTie" ELSE "PrepareActor"]_vars

\* C7: a SpeedTie with an autonomous battler among the tied moves in one tick to
\* PrepareActor of a member of the ready queue; with only player-controlled
\* battlers tied it moves to WaitingForTie, which is left only for PrepareActor
\* of the supplied winner; PrepareActor moves to ControlledTurn for a
\* player-controlled actor and to AITurn otherwise.
C7_TieResolution ==
    [][/\ (state = "SpeedTie" /\ \E b \in Range(ready_actors) : b \notin Range(party)) =>
              state' = "PrepareActor" /\ actor' \in Range(ready_actors)
       /\ (state = "SpeedTie" /\ \A b \in Range(ready_actors) : b \in Range(party)) =>
              state' = "WaitingForTie"
       /\ (state = "WaitingForTie" /\ state' # "WaitingForTie") =>
              /\ state' = "PrepareActor"
              /\ tie_winner # "none"
              /\ actor' = tie_winner
       /\ state = "PrepareActor" =>
              state' = IF actor \in Range(party) THEN "ControlledTurn" ELSE "AITurn"]_vars

C7_Witness ==
    /\ state = "SpeedTie"
    /\ \E b \in Range(ready_actors) : b \in Range(party)
    /\ \E b \in Range(ready_actors) : b \notin Range(party)

\* C8: in Victory and Loss no tick changes the state, the roster, the graveyard,
\* the ready queue or a battler; the outcome is none outside these two states,
\* their advance sets it to Victory and Defeat, and once set it never changes.
C8_Terminal ==
    /\ [](~Terminal => outcome = "none")
    /\ [][/\ Terminal =>
                /\ UNCHANGED <<state, actor, battlers, graveyard, ready_actors, hp, mp,
                               limit, atb, stats, statuses, inventory>>
                /\ outcome' = IF state = "Victory" THEN "Victory" ELSE "Defeat"
          /\ outcome # "none" => outcome' = outcome]_vars

C8_Witness == state = "Victory" /\ outcome = "Victory"

RECURSIVE C9_ApplyMods(_, _, _, _)
C9_ApplyMods(v, stat, mods, i) ==
    IF i > Len(mods) THEN v
    ELSE C9_ApplyMods(IF mods[i].stat = stat THEN Trunc(v * mods[i].num, mods[i].den) ELSE v,
                      stat, mods, i + 1)

RECURSIVE C9_ApplyOnce(_, _, _, _)
C9_ApplyOnce(v, stat, list, i) ==
    IF i > Len(list) THEN v
    ELSE C9_ApplyOnce(C9_ApplyMods(v, stat, StatusDef(list[i].name).stat_modifiers, 1),
                      stat, list, i + 1)

\* The baseline of b with the multiplier of each attached status applied once
C9_OnceEach(b) ==
    [strength |-> C9_ApplyOnce(BattlerDef(b).strength, "strength", statuses[b], 1),
     magic    |-> C9_ApplyOnce(BattlerDef(b).magic, "magic", statuses[b], 1),
     defense  |-> C9_ApplyOnce(BattlerDef(b).defense, "defense", statuses[b], 1),
     mdefense |-> C9_ApplyOnce(BattlerDef(b).mdefense, "mdefense", statuses[b], 1),
     speed    |-> C9_ApplyOnce(BattlerDef(b).speed, "speed", statuses[b], 1)]

\* C9: after every PrepareActor advance the actor's five stats are the baseline
\* with each attached status's multiplier applied exactly once, truncated after
\* each multiplication; with no status attached they are the baseline.
C9_PreparedStats ==
    [][state = "PrepareActor" =>
          /\ stats'[actor] = C9_OnceEach(actor)
          /\ statuses[actor] = <<>> => stats'[actor] = pre_battle_stats(actor)]_vars

\* The Hero is prepared for the third turn in a row with Brave attached
C9_Witness ==
    /\ state = "ControlledTurn"
    /\ actor = "Hero"
    /\ turns = 2
    /\ statuses["Hero"] = <<[name |-> "Brave", stack |-> 1, duration |-> 1]>>
    /\ stats["Hero"].strength = 2 * BattlerDef("Hero").strength

\* C10 as claimed: in every state the stats of every roster member are the
\* baseline multiplied by the modifiers of exactly the statuses attached to it.
C10_StatsFollowStatuses == \A b \in Range(battlers) : stats[b] = C9_OnceEach(b)

\* C10 amended: the stats start at the baseline and change only in the
\* battler's own PrepareActor advance, where they become the baseline multiplied
\* by the modifiers of the statuses attached at that advance; a status applied
\* or removed at another time leaves the stats as they are.
C10_StatsChangeOnlyWhenPrepared ==
    /\ \A b \in Battlers : stats[b] = pre_battle_stats(b)
    /\ [][\A b \in Battlers :
            /\ stats'[b] # stats[b] =>
                  state = "PrepareActor" /\ b = actor /\ stats'[b] = C9_OnceEach(b)
            /\ (statuses'[b] # statuses[b] /\ ~(state = "PrepareActor" /\ b = actor)) =>
                  stats'[b] = stats[b]]_vars

\* Break has just been applied to the Slime and its defense is still the baseline
C10_Witness ==
    /\ state = "CheckingDeath"
    /\ "Slime" \in Range(battlers)
    /\ \E st \in StatusesOf("Slime") : st.name = "Break"
    /\ stats["Slime"].defense = BattlerDef("Slime").defense

\* C11: every battler's mp lies in 0..mp_max in every reachable state, whatever
\* actions the decision source supplies and the AI policy chooses.
C11_MpInRange == \A b \in Battlers : 0 <= mp[b] /\ mp[b] <= mp_max(b)

\* What C12 says one application of the status `name` makes of the list old
C12_Applied(old, new, name) ==
    LET def == StatusDef(name)
        Named(list) == {i \in 1..Len(list) : list[i].name = name}
    IN  /\ Cardinality(Named(new)) = 1
        /\ IF Named(old) = {}
             THEN new = Append(old, [name |-> name, stack |-> def.starting_stacks,
                                     duration |-> def.applied_duration])
             ELSE /\ Len(new) = Len(old)
                  /\ \A i \in 1..Len(old) :
                        IF old[i].name = name
                            THEN /\ new[i].name = name
                                 /\ new[i].stack =
                                        (IF old[i].stack + 1 <= def.max_stacks
                                            THEN old[i].stack + 1 ELSE def.max_stacks)
                                 /\ new[i].duration =
                                        (IF old[i].duration + def.applied_duration
                                                <= def.max_duration
                                            THEN old[i].duration + def.applied_duration
                                            ELSE def.max_duration)
                            ELSE new[i] = old[i]

\* C12: Action.apply_status creates the status with its starting stack and applied
\* duration when the battler has none of that name, and otherwise sets duration to
\* min(duration + applied_duration, max_duration) and stack to
\* min(stack + 1, max_stacks); it never leaves two entries of one name. Applied
\* twice, a status with starting_stacks 1, max_stacks 3, applied_duration 3 has
\* stack 2 and duration min(3 + 3, max_duration).
C12_ApplyStatus ==
    [][\A b \in Battlers :
          statuses'[b] # statuses[b] =>
              \E name \in StatusNames : C12_Applied(statuses[b], statuses'[b], name)]_vars

\* Regen (1 stack of 3, applied for 3 of 7) after exactly two applications
C12_Witness ==
    \E b \in Range(party) : \E i \in 1..Len(statuses[b]) :
        /\ statuses[b][i] = [name |-> "Regen", stack |-> 2, duration |-> 6]
        /\ \A j \in 1..Len(statuses[b]) : statuses[b][j].name = "Regen" => j = i

\* The quantity of the item `name` in an inventory, 0 when it has no entry
C13_Quantity(inv, name) ==
    IF HasItem(inv, name)
        THEN inv[CHOOSE i \in 1..Len(inv) : inv[i].name = name].quantity
        ELSE 0

\* C13: resolving an item action with the item in the inventory lowers its
\* quantity by exactly one and removes the entry at 0; resolving it with the item
\* absent reports the missing item to the caller, as the reason execute hands
\* back or as an error.
C13_ItemConsumption ==
    [][(state = "ControlledTurn" /\ state' = "CheckingDeath"
            /\ ActionDef(action).class = "Item_Action") =>
          IF HasItem(inventory, action)
            THEN /\ C13_Quantity(inventory', action) = C13_Quantity(inventory, action) - 1
                 /\ \A i \in 1..Len(inventory') : inventory'[i].quantity > 0
            ELSE execute_reason(action, inventory) # "none" \/ error' # "none"]_vars

\* C14 as claimed: from Battle setup, with no deaths, a battler of strictly
\* higher speed is first appended to the ready queue at the same tick as a slower
\* one or earlier: before any turn has ended, the slower one is not in the queue
\* without the faster one.
C14_FasterNoLater ==
    turns = 0 =>
        \A a, b \in Range(battlers) :
            (stats[a].speed > stats[b].speed /\ b \in Range(ready_actors))
                => a \in Range(ready_actors)

\* C14 amended: in a Waiting advance that fills the gauges, a roster member of
\* strictly higher speed whose gauge is at least the other's before the advance
\* has a gauge at least the other's after it and is appended whenever the other
\* is; so from setup the faster battler is appended no later when its initial
\* draw is at least the slower one's.
C14_FasterNoLaterFromLevel ==
    [][(state = "Waiting" /\ ready_actors = <<>>) =>
          \A a, b \in Range(battlers) :
              (stats[a].speed > stats[b].speed /\ atb[a] >= atb[b]) =>
                  /\ atb'[a] >= atb'[b]
                  /\ b \in Range(ready_actors') => a \in Range(ready_actors')]_vars

\* A fill has appended a faster battler that started level with a slower one,
\* and the slower one with it
C14_Witness ==
    /\ state = "Waiting"
    /\ \E a, b \in Range(ready_actors) :
          stats[a].speed > stats[b].speed /\ atb[a] >= atb[b]
    /\ \E c \in Range(battlers) : c \notin Range(ready_actors)

\* C15: an AITurn advance completes in one tick: it resolves the basic attack on
\* exactly one battler of the side opposing the actor that has hp > 0, no other
\* battler loses hp, and the next state is CheckingDeath.
C15_AITurnAttacksOne ==
    [][state = "AITurn" =>
          /\ state' = "CheckingDeath"
          /\ error' = "none"
          /\ \E t \in Battlers :
                /\ t \in (IF actor \in Range(party) THEN Range(enemies) ELSE Range(party))
                /\ hp[t] > 0
                /\ \A b \in Battlers \ {t} : hp'[b] = hp[b]]_vars

\* trunc(attack / 2^(defense/attack) * potency/100) in exact arithmetic: the
\* largest n with (100 n)^s * 2^r <= (attack * potency)^s, defense/attack = r/s
C16_Raw(attack, defense, potency) ==
    LET g == GCD(attack, defense)
        s == attack \div g
        r == defense \div g
    IN  SetMax({n \in 0..((attack * potency) \div 100) :
                    Pow(100 * n, s) * Pow(2, r) <= Pow(attack * potency, s)})

\* C16: with the variance at 100%, no critical hit and a neutral affinity, a
\* single-target damage action lowers the target's hp by exactly
\* min(raw, target.hp), raw = trunc(attack / 2^(defense/attack) * potency/100);
\* raw is attack * potency / 100 when defense is 0.
C16_ExactDamage ==
    [][hp'["Slime"] # hp["Slime"] =>
          \E a \in {"Attack", "Jab"} :
              LET raw == C16_Raw(stats["Hero"].strength, stats["Slime"].defense,
                                 ActionDef(a).potency)
              IN  /\ hp'["Slime"] = hp["Slime"] - Min(raw, hp["Slime"])
                  /\ stats["Slime"].defense = 0 =>
                        raw = (stats["Hero"].strength * ActionDef(a).potency) \div 100]_vars

\* C17: once the encounter has an outcome, Battle.conclude leaves every battler
\* that took part, in the roster or in the graveyard, with strength, magic,
\* defense, mdefense and speed at their pre-battle baseline.
C17_ConcludeRestoresAll ==
    outcome # "none" => \A b \in Battlers : conclude(stats)[b] = pre_battle_stats(b)

\* C18: a roster member with hp 0 is eventually moved to the graveyard, also when
\* several battlers are dead at once (while the host keeps ticking with dt > 0 and
\* the decisions arrive; the exploration follows the battle up to MaxTurns turns).
C18_DeadEventuallyBuried ==
    \A b \in Battlers :
        (b \in Range(battlers) /\ hp[b] = 0)
            ~> (b \in Range(graveyard) \/ turns = MaxTurns)

\* C19: a Burying advance moves exactly one battler from the roster to the
\* graveyard; that battler has hp 0 and gauge 0 when it enters the graveyard, and
\* every other roster member, dead or alive, stays in the roster.
C19_BuriesOne ==
    [][state = "Burying" =>
          \E d \in Range(battlers) :
              /\ hp[d] = 0 /\ hp'[d] = 0 /\ atb'[d] = 0
              /\ graveyard' = Append(graveyard, d)
              /\ Len(battlers') = Len(battlers) - 1
              /\ Range(battlers') = Range(battlers) \ {d}]_vars

\* A burial has taken place and another roster member with hp 0 is left behind
C19_Witness ==
    /\ state \in {"EndingTurn", "Victory", "Loss"}
    /\ outcome = "none"
    /\ Len(graveyard) = 1
    /\ \E b \in Range(battlers) : hp[b] = 0

\* What C20 says of a Waiting advance with time step dt: every roster member's
\* gauge grows by speed * dt * 5, and the members whose gauge is then at least
\* 296 are appended to the ready queue in roster order
C20_Fills(dt) ==
    /\ \A b \in Range(battlers) : atb'[b] = atb[b] + stats[b].speed * dt * 5
    /\ LET Crossed(b) == atb'[b] >= 296
       IN  ready_actors' = ready_actors \o SelectSeq(battlers, Crossed)

C21_EndingTurnFrame ==
    [][state = "EndingTurn" =>
          /\ state' = "Waiting"
          /\ error' = "none"
          /\ actor \notin Range(ready_actors')
          /\ LET Other(b) == b # actor
             IN  ready_actors' = SelectSeq(ready_actors, Other)
          /\ Len(ready_actors') = Len(ready_actors) - 1
          /\ atb'[actor] = atb[actor] - 296
          /\ \A b \in Battlers \ {actor} : atb'[b] = atb[b]]_vars

\* The Hero's first turn is over: 904 of its 1200 are carried over, and the Mage,
\* ready at the same advance, still waits behind it
C21_Witness ==
    /\ state = "Waiting"
    /\ turns = 1
    /\ atb["Hero"] = 1200 - 296
    /\ ready_actors = <<"Mage">>

\* C22: when a Burying visit empties a whole side, the acting battler's
\* EndingTurn processing has taken place by the time the machine enters Victory
\* or Loss: the step that enters the terminal state leaves the battler whose
\* turn it is out of the ready queue.
C22_EndingTurnBeforeOutcome ==
    [][(~Terminal /\ Terminal') => actor \notin Range(ready_actors')]_vars

\* C23: after a speed tie is resolved only the winner takes a turn; the tied
\* battlers all stay in the ready queue through the resolution, a battler
\* leaves the queue only at the end of its own turn, and a Waiting advance that
\* finds the queue occupied takes its members as they are (the single one
\* as the actor, several as a new tie) without filling any gauge.
C23_TieLosersStayReady ==
    [][/\ (state \in {"SpeedTie", "WaitingForTie"} /\ state' = "PrepareActor") =>
              /\ ready_actors' = ready_actors
              /\ actor' \in Range(ready_actors)
       /\ \A b \in Range(ready_actors) :
              b \notin Range(ready_actors') => (state = "EndingTurn" /\ b = actor)
       /\ (state = "Waiting" /\ ready_actors # <<>>) =>
              /\ atb' = atb
              /\ ready_actors' = ready_actors
              /\ IF Len(ready_actors) = 1
                    THEN state' = "PrepareActor" /\ actor' = ready_actors[1]
                    ELSE state' = "SpeedTie"]_vars

\* The Hero won the tie and has had its turn; the Mage, the loser, is taken as
\* the actor with the gauge it had when it tied
C23_Witness ==
    /\ state = "PrepareActor"
    /\ actor = "Mage"
    /\ turns = 1
    /\ ready_actors = <<"Mage">>
    /\ atb["Mage"] = 300
    /\ atb["Hero"] = 1200 - 296

\* C24: Status.reapply never lowers the duration or the stack of the status it
\* is called on: for the action and targets a ControlledTurn is about to
\* resolve, every status that Action.statusing reapplies, taken as it is at
\* the moment of the call (a status the same action has just applied to its
\* own actor included), has afterwards a duration and a stack no smaller than
\* before.
C24_ReapplyNeverDecreases ==
    (state = "ControlledTurn" /\ action # "none" /\ targets # <<>>) =>
        \A st \in reapplied(statuses, action, actor, targets) :
            /\ reapply(st).duration >= st.duration
            /\ reapply(st).stack >= st.stack

\* The entry of that name on a status list that carries exactly one
C25_Entry(list, name) == list[CHOOSE i \in 1..Len(list) : list[i].name = name]

C25_Once(seq, x) == Cardinality({i \in 1..Len(seq) : seq[i] = x}) = 1

\* C25: a one-stack status of applied duration D is executed on D of its
\* owner's turns after the turn it was applied in, whether the action applied
\* it to its own actor or to another battler. Step by step: a status freshly
\* applied to the actor leaves the resolution with duration D + 1, one freshly
\* applied to another battler with duration D; the owner's PrepareActor executes
\* every status it carries and changes none; the owner's EndingTurn lowers the
\* duration of each of its one-stack statuses by one and removes the status
\* whose duration was 1; nobody else's EndingTurn and no other advance but a
\* resolution touches a status. So the self-applied status starts its owner's
\* next turn with duration D, like the one applied to another battler, and
\* both are executed on the next D turns and removed at the end of the D-th.
C25_SelfAndTargetLifetime ==
    [][/\ (state = "ControlledTurn" /\ state' = "CheckingDeath") =>
              /\ \A n \in Range(ActionDef(action).status_for_actor) :
                    (/\ ~HasStatus(statuses[actor], n)
                     /\ C25_Once(ActionDef(action).status_for_actor, n)
                     /\ ~(n \in Range(ActionDef(action).status_for_target)
                            /\ actor \in Range(targets)))
                    => /\ HasStatus(statuses'[actor], n)
                       /\ C25_Entry(statuses'[actor], n).duration
                              = StatusDef(n).applied_duration + 1
              /\ \A n \in Range(ActionDef(action).status_for_target) :
                 \A t \in Range(targets) \ {actor} :
                    (/\ ~HasStatus(statuses[t], n)
                     /\ C25_Once(ActionDef(action).status_for_target, n)
                     /\ C25_Once(targets, t))
                    => /\ HasStatus(statuses'[t], n)
                       /\ C25_Entry(statuses'[t], n).duration
                              = StatusDef(n).applied_duration
                       /\ C25_Entry(statuses'[t], n).stack
                              = StatusDef(n).starting_stacks
       /\ state = "PrepareActor" =>
              /\ statuses' = statuses
              /\ stats'[actor] = C9_OnceEach(actor)
       /\ state = "EndingTurn" =>
              /\ \A b \in Battlers \ {actor} : statuses'[b] = statuses[b]
              /\ \A i \in 1..Len(statuses[actor]) :
                    LET st == statuses[actor][i]
                    IN  st.stack = 1 =>
                           IF st.duration = 1
                              THEN ~HasStatus(statuses'[actor], st.name)
                              ELSE /\ HasStatus(statuses'[actor], st.name)
                                   /\ C25_Entry(statuses'[actor], st.name)
                                         = [st EXCEPT !.duration = st.duration - 1]
       /\ state \notin {"ControlledTurn", "AITurn", "EndingTurn"} =>
              statuses' = statuses]_vars

\* The Hero took Focus on its first turn (applied duration 2), Brave was
\* executed at the start of its second and of its third turn, and the end of
\* the third turn has removed it (no Smash has spent it: the Slime has no Break)
C25_Witness ==
    /\ state = "Waiting"
    /\ turns = 3
    /\ statuses["Hero"] = <<>>
    /\ statuses["Slime"] = <<>>
    /\ stats["Hero"].strength = 2 * BattlerDef("Hero").strength
    /\ atb["Hero"] = 600 + 600 + 600 - 3 * 296

\* Status.reduce_duration as claimed: the duration falls by 1; when it reaches
\* 0 the stack falls by 1 and, if a stack is left, the duration starts again at
\* applied_duration; otherwise the stack stays
C26_Reduced(st) ==
    LET d == st.duration - 1
    IN  IF d # 0 THEN [name |-> st.name, stack |-> st.stack, duration |-> d]
        ELSE IF st.stack - 1 > 0
                THEN [name |-> st.name, stack |-> st.stack - 1,
                      duration |-> StatusDef(st.name).applied_duration]
                ELSE [name |-> st.name, stack |-> st.stack - 1, duration |-> 0]

\* C26: an EndingTurn advance leaves on its actor each status reduced as
\* Status.reduce_duration is claimed to reduce it (those left with a stack of 0
\* or less are gone) and leaves the statuses of every other battler alone; no
\* other advance lowers the duration of a status or removes one.
C26_ReduceDuration ==
    [][/\ state = "EndingTurn" =>
              /\ LET Kept(st) == st.stack > 0
                 IN  statuses'[actor] =
                        SelectSeq([i \in 1..Len(statuses[actor]) |->
                                      C26_Reduced(statuses[actor][i])], Kept)
              /\ \A b \in Battlers \ {actor} : statuses'[b] = statuses[b]
       /\ state # "EndingTurn" =>
              \A b \in Battlers : \A i \in 1..Len(statuses[b]) :
                  /\ i <= Len(statuses'[b])
                  /\ statuses'[b][i].name = statuses[b][i].name
                  /\ statuses'[b][i].duration >= statuses[b][i].duration]_vars

\* The Hero's Haste came with two stacks and duration 1: the end of the
\* Hero's next turn took the duration to 0, one stack went and the duration
\* started again at 1
C26_Witness ==
    /\ state = "Waiting"
    /\ turns = 2
    /\ statuses["Hero"] = <<[name |-> "Haste", stack |-> 1, duration |-> 1]>>

\* C27: a status leaves a battler's status list only in that battler's own
\* EndingTurn advance, and whenever the machine is in Waiting no roster
\* member carries a status with a stack of 0 or less.
C27_RemovalOnlyAtOwnEndingTurn ==
    /\ [](state = "Waiting" =>
              \A b \in Range(battlers) : \A i \in 1..Len(statuses[b]) :
                  statuses[b][i].stack >= 1)
    /\ [][\A b \in Battlers :
              (\/ Len(statuses'[b]) < Len(statuses[b])
               \/ \E i \in 1..Len(statuses[b]) :
                      ~HasStatus(statuses'[b], statuses[b][i].name))
              => (state = "EndingTurn" /\ b = actor)]_vars

\* Rally gave the Hero two stacks of Brave and the Mage one; the Hero spent
\* both on Vent in its second turn: the status, with a duration still to run,
\* stayed on the list until the end of that turn and is gone now
C27_Witness ==
    /\ state = "Waiting"
    /\ turns = 2
    /\ statuses["Hero"] = <<>>
    /\ stats["Hero"].strength = 2 * BattlerDef("Hero").strength
    /\ HasStatus(statuses["Mage"], "Brave")

\* C28: every resolution applies all the costs of its action, whatever the
\* affordability check would say and whichever other costs the action has: the
\* actor's mp falls by mp_cost, every status of a cost's name on the actor
\* loses the required stacks, an item action takes one unit of its item when
\* the inventory has it, and a limit action leaves the actor's limit at 0.
C28_AllCostsApplied ==
    [][(state = "ControlledTurn" /\ state' = "CheckingDeath") =>
          LET def == ActionDef(action)
              s1  == statusing(statuses, action, actor, targets)[actor]
          IN  /\ mp'[actor] = mp[actor] - def.mp_cost
              /\ Len(statuses'[actor]) = Len(s1)
              /\ \A i \in 1..Len(s1) : \A k \in 1..Len(def.status_costs) :
                    s1[i].name = def.status_costs[k].name =>
                        statuses'[actor][i].stack = s1[i].stack - def.status_costs[k].stack
              /\ (def.class = "Item_Action" /\ HasItem(inventory, action)) =>
                    C13_Quantity(inventory', action) = C13_Quantity(inventory, action) - 1
              /\ def.class = "Limit" => limit'[actor] = 0]_vars

\* The affordability of an action as claimed: the mp suffices and, for every
\* cost in stacks, the actor carries a status of that name with as many
C29_Affordable(a, act) ==
    /\ mp[act] >= ActionDef(a).mp_cost
    /\ \A k \in 1..Len(ActionDef(a).status_costs) :
          \E i \in 1..Len(statuses[act]) :
              /\ statuses[act][i].name = ActionDef(a).status_costs[k].name
              /\ statuses[act][i].stack >= ActionDef(a).status_costs[k].stack

\* C29: Action.check_costs returns no reason exactly when the actor has the
\* mp and, for every cost in stacks, a status of that name with at least the
\* required stacks; and a resolution that starts where check_costs returns no
\* reason leaves the actor with mp >= 0 and with no negative stack on a status
\* the action is paid in. (check_costs only reads: nothing changes by it.)
C29_CheckCosts ==
    /\ [](state = "ControlledTurn" =>
              \A a \in commands[actor] : check_costs(a, actor) <=> C29_Affordable(a, actor))
    /\ [][(state = "ControlledTurn" /\ state' = "CheckingDeath"
              /\ check_costs(action, actor)) =>
              /\ mp'[actor] >= 0
              /\ \A i \in 1..Len(statuses'[actor]) :
                 \A k \in 1..Len(ActionDef(action).status_costs) :
                    statuses'[actor][i].name = ActionDef(action).status_costs[k].name
                        => statuses'[actor][i].stack >= 0]_vars

\* The Hero had one stack of Brave, check_costs had no objection to Smash, and
\* the resolution has left the status with stack 0
C29_Witness ==
    /\ state = "CheckingDeath"
    /\ actor = "Hero"
    /\ action = "Smash"
    /\ mp["Hero"] = 1
    /\ \E i \in 1..Len(statuses["Hero"]) :
          statuses["Hero"][i].name = "Brave" /\ statuses["Hero"][i].stack = 0

\* C30: when an item-heal action is resolved and the inventory has no item of
\* its name, the heal of the target stays (and nobody else's hp changes), the
\* inventory is what it was, the resolution returns its log lines (the line of
\* the use and the line of the heal) and the machine goes on to CheckingDeath
\* without an error.
C30_AbsentItemKeepsHeal ==
    [][(/\ state = "ControlledTurn" /\ action # "none" /\ targets # <<>>
        /\ ActionDef(action).type = "Item Heal"
        /\ ~HasItem(inventory, action)) =>
          LET t == targets[1]
          IN  /\ hp'[t] = Min(hp[t] + ActionDef(action).potency, hp_max(t))
              /\ \A b \in Battlers \ {t} : hp'[b] = hp[b]
              /\ inventory' = inventory
              /\ execute_log(action, actor, targets, [i \in 1..Len(targets) |-> FixedRoll])
                    = <<<<"used", actor, action>>, <<"healed", t>>>>
              /\ state' = "CheckingDeath"
              /\ error' = "none"]_vars

\* The Hero, down to 1 hp, has taken a Potion the inventory does not have:
\* it has 3 hp and the Elixir is still there
C30_Witness ==
    /\ state = "CheckingDeath"
    /\ action = "Potion"
    /\ targets = <<"Hero">>
    /\ hp["Hero"] = 3
    /\ inventory = <<[name |-> "Elixir", quantity |-> 1]>>

\* What an advance that only polls leaves alone
C31_Untouched ==
    /\ actor' = actor
    /\ UNCHANGED <<hp, mp, statuses, atb, ready_actors, battlers, graveyard, inventory,
                   limit, stats, behaviour_log, outcome, error>>
    /\ log_messages' \in {<<>>, log_messages}

\* C31: while the decision source has not supplied both an action and a
\* non-empty target list, nothing but the decision itself changes in
\* ControlledTurn: the state and the actor stay and no hp, mp, status, gauge,
\* queue, roster, graveyard or inventory changes and no log line is added;
\* the same in WaitingForTie while no tie winner is named. With the decision
\* present the next advance resolves the action (its log lines start with the
\* line of the use) and moves to CheckingDeath.
C31_PollUntilDecision ==
    [][/\ (state = "ControlledTurn" /\ (action = "none" \/ targets = <<>>)) =>
              (state' = "ControlledTurn" /\ C31_Untouched)
       /\ (state = "WaitingForTie" /\ tie_winner = "none") =>
              (state' = "WaitingForTie" /\ C31_Untouched)
       /\ (state = "ControlledTurn" /\ action # "none" /\ targets # <<>>) =>
              /\ state' = "CheckingDeath"
              /\ actor' = actor
              /\ log_messages' # <<>>
              /\ log_messages'[1] = <<"used", actor, action>>]_vars

\* The tie is waiting for its winner and an advance has gone by: the line of
\* the tie has been taken out of the log, nothing else has moved
C31_Witness ==
    /\ state = "WaitingForTie"
    /\ tie_winner = "none"
    /\ log_messages = <<>>
    /\ ready_actors = <<"Hero", "Mage">>
    /\ turns = 0

\* C32: a decision whose target list is empty or holds only dead battlers
\* (hp 0) is rejected: the advance resolves nothing, no hp, mp, status, limit
\* or inventory changes, and the machine stays in ControlledTurn with the same
\* actor.
C32_InvalidTargetRejected ==
    [][(/\ state = "ControlledTurn"
        /\ action # "none"
        /\ \A i \in 1..Len(targets) : hp[targets[i]] = 0) =>
          /\ state' = "ControlledTurn"
          /\ actor' = actor
          /\ UNCHANGED <<hp, mp, statuses, limit, inventory>>]_vars

\* C33: the lines one resolved turn adds to the battle log are the lines of
\* that turn's action and nothing else: they hold one line "<actor> used
\* <action>!", the first, and so no line of an earlier turn comes again.
C33_LogOfOneTurn ==
    \A i \in 1..Len(log_messages) : log_messages[i][1] = "used" => i = 1

\* C34: a battler whose hp is 0, in the roster or in the graveyard, is never
\* the acting battler of a PrepareActor, ControlledTurn or AITurn state, and
\* so never resolves an action.
C34_DeadNeverActs ==
    state \in {"PrepareActor", "ControlledTurn", "AITurn"} => hp[actor] > 0

\* C35: in every reachable state every member of the ready queue is a member
\* of the active roster: a battler moved to the graveyard is no longer in the
\* ready queue, also when it was waiting there when it was killed.
C35_ReadyWithinRoster ==
    \A i \in 1..Len(ready_actors) : ready_actors[i] \in Range(battlers)

\* C36: whenever the machine is in AITurn, the side opposing the acting
\* battler has at least one member with hp > 0, so the default policy never
\* chooses from an empty candidate list and the AI turn never fails, also
\* after an action has killed several battlers of which one has been buried.
C36_AITurnHasCandidate ==
    /\ state = "AITurn" => Candidates(actor) # {}
    /\ error # "IndexError"

\* C37: the machine enters Victory only in states where at least one party
\* member has hp > 0; it never declares Victory when every party member
\* has hp 0.
C37_VictoryHasSurvivor ==
    state = "Victory" => \E b \in Range(party) : hp[b] > 0

C39_ActorIsQueued ==
    /\ state \in {"PrepareActor", "ControlledTurn", "AITurn", "CheckingDeath", "Burying",
                  "EndingTurn"} => actor \in Range(ready_actors)
    /\ error # "ValueError"

\* The winner of a tie among all three battlers is at the end of its turn,
\* still queued behind a battler that was ready before it
C39_Witness ==
    /\ state = "EndingTurn"
    /\ actor = "Slime"
    /\ ready_actors = <<"Hero", "Mage", "Slime">>

\* C40: in every reachable state the readiness gauge (atb) of every battler
\* in the active roster is >= 0 (dt >= 0 and speed >= 0 on every tick); the
\* threshold subtraction in EndingTurn never takes a roster member's gauge
\* below zero.
C40_RosterGaugeNonNegative ==
    \A b \in Range(battlers) : atb[b] >= 0

====
